---------------------------- MODULE Spec2Model ----------------------------
(***************************************************************************)
(* ExecutableDeployItem (node/src/components/contract_runtime/core/        *)
(* engine_state/executable_deploy_item.rs): the six-variant payload        *)
(* descriptor of a deploy, its derived order, its Display rendering and    *)
(* its three operations to_contract_hash_key, into_runtime_args and        *)
(* entry_point_name.                                                       *)
(*                                                                         *)
(* Strings (Rust String) and byte buffers (Vec<u8>, [u8; 32]) are both     *)
(* sequences of bytes 0..255; text literals are written as their ASCII     *)
(* codes with the text in a comment.                                       *)
(***************************************************************************)
EXTENDS Integers, Sequences, FiniteSets, TLC

VARIABLES item, other, account, op, lookups, key_result, args_result,
          entry_point, rendered, ordering

vars == <<item, other, account, op, lookups, key_result, args_result,
          entry_point, rendered, ordering>>

(***************************************************************************)
(* Bounds of the model.                                                    *)
(***************************************************************************)
\* argument names of a named-argument mapping are "a", "b", ... (MaxArgs of them)
MaxArgs == 2
\* explicit contract versions are 0..MaxVersion, and the ten-digit 2147483647
MaxVersion == 2

(***************************************************************************)
(* Option<T> and Result<T, E>.                                             *)
(***************************************************************************)
None == <<>>
Some(x) == <<x>>
IsSome(o) == Len(o) = 1
Unwrap(o) == o[1]

Ok(v) == [tag |-> "Ok", val |-> v]
Err(e) == [tag |-> "Err", err |-> e]
NotRun == [tag |-> "NotRun"]

(***************************************************************************)
(* Text used by the program and by the inputs.                             *)
(***************************************************************************)
\* "call"
DEFAULT_ENTRY_POINT_NAME == <<99, 97, 108, 108>>
\* "execute module bytes "
TxtModuleBytes == <<101, 120, 101, 99, 117, 116, 101, 32, 109, 111, 100, 117, 108, 101, 32, 98, 121, 116, 101, 115, 32>>
\* ", args "
TxtArgs == <<44, 32, 97, 114, 103, 115, 32>>
\* "execute stored contract by hash "
TxtByHash == <<101, 120, 101, 99, 117, 116, 101, 32, 115, 116, 111, 114, 101, 100, 32, 99, 111, 110, 116, 114, 97, 99, 116, 32, 98, 121, 32, 104, 97, 115, 104, 32>>
\* ", entry point "
TxtEntryPoint == <<44, 32, 101, 110, 116, 114, 121, 32, 112, 111, 105, 110, 116, 32>>
\* "execute stored contract by name "
TxtByName == <<101, 120, 101, 99, 117, 116, 101, 32, 115, 116, 111, 114, 101, 100, 32, 99, 111, 110, 116, 114, 97, 99, 116, 32, 98, 121, 32, 110, 97, 109, 101, 32>>
\* "execute stored versioned contract "
TxtVersioned == <<101, 120, 101, 99, 117, 116, 101, 32, 115, 116, 111, 114, 101, 100, 32, 118, 101, 114, 115, 105, 111, 110, 101, 100, 32, 99, 111, 110, 116, 114, 97, 99, 116, 32>>
\* "execute stored versioned contract by hash "
TxtVersionedByHash == <<101, 120, 101, 99, 117, 116, 101, 32, 115, 116, 111, 114, 101, 100, 32, 118, 101, 114, 115, 105, 111, 110, 101, 100, 32, 99, 111, 110, 116, 114, 97, 99, 116, 32, 98, 121, 32, 104, 97, 115, 104, 32>>
\* ", version "
TxtVersion == <<44, 32, 118, 101, 114, 115, 105, 111, 110, 32>>
\* ", latest version, entry point "
TxtLatestVersionEntryPoint == <<44, 32, 108, 97, 116, 101, 115, 116, 32, 118, 101, 114, 115, 105, 111, 110, 44, 32, 101, 110, 116, 114, 121, 32, 112, 111, 105, 110, 116, 32>>
\* "execute transfer args "
TxtTransfer == <<101, 120, 101, 99, 117, 116, 101, 32, 116, 114, 97, 110, 115, 102, 101, 114, 32, 97, 114, 103, 115, 32>>
\* ".."
ELLIPSIS == <<46, 46>>
\* "0123456789abcdef"
HexDigits == <<48, 49, 50, 51, 52, 53, 54, 55, 56, 57, 97, 98, 99, 100, 101, 102>>

\* "latest version"
StrLatestVersion == <<108, 97, 116, 101, 115, 116, 32, 118, 101, 114, 115, 105, 111, 110>>
\* "version "
StrVersionSp == <<118, 101, 114, 115, 105, 111, 110, 32>>
\* "pos", "Pos", "po"
StrPos == <<112, 111, 115>>
StrPosUpper == <<80, 111, 115>>
StrPo == <<112, 111>>
\* "Bond"
StrBond == <<66, 111, 110, 100>>
\* ""
StrEmpty == <<>>

(***************************************************************************)
(* The variants of ExecutableDeployItem, each with its own fields in       *)
(* declaration order.                                                      *)
(***************************************************************************)
ModuleBytes(module_bytes, args) ==
    [variant |-> "ModuleBytes", module_bytes |-> module_bytes, args |-> args]
StoredContractByHash(hash, ep, args) ==
    [variant |-> "StoredContractByHash", hash |-> hash, entry_point |-> ep,
     args |-> args]
StoredContractByName(name, ep, args) ==
    [variant |-> "StoredContractByName", name |-> name, entry_point |-> ep,
     args |-> args]
StoredVersionedContractByName(name, version, ep, args) ==
    [variant |-> "StoredVersionedContractByName", name |-> name,
     version |-> version, entry_point |-> ep, args |-> args]
StoredVersionedContractByHash(hash, version, ep, args) ==
    [variant |-> "StoredVersionedContractByHash", hash |-> hash,
     version |-> version, entry_point |-> ep, args |-> args]
Transfer(args) ==
    [variant |-> "Transfer", args |-> args]

\* the variants in declaration order
Variants == <<"ModuleBytes", "StoredContractByHash", "StoredContractByName",
              "StoredVersionedContractByName", "StoredVersionedContractByHash",
              "Transfer">>

\* mutant: the versioned pair is declared by hash first, like the plain pair
Discriminant_HashBeforeName(v) ==
    CHOOSE i \in 1..6 :
        <<"ModuleBytes", "StoredContractByHash", "StoredContractByName",
          "StoredVersionedContractByHash", "StoredVersionedContractByName",
          "Transfer">>[i] = v

\* the discriminant of a variant: its position in the declaration
Discriminant(v) == CHOOSE i \in 1..Len(Variants) : Variants[i] = v

(***************************************************************************)
(* Key and Account: the account is read through named_keys().get(name).    *)
(***************************************************************************)
KeyHash(addr) == [tag |-> "Hash", addr |-> addr]
KeyURef(addr) == [tag |-> "URef", addr |-> addr]

\* Key::from(hash) for a ContractHash / ContractPackageHash
KeyFromHash(hash) == KeyHash(hash)

\* ASCII lower case
Lower(s) == [i \in 1..Len(s) |-> IF s[i] >= 65 /\ s[i] <= 90 THEN s[i] + 32 ELSE s[i]]

\* mutant: the name is matched without regard to case
NamedKeysGet_IgnoreCase(acct, name) ==
    IF \E k \in DOMAIN acct.named_keys : Lower(k) = Lower(name)
    THEN Some(acct.named_keys[CHOOSE k \in DOMAIN acct.named_keys : Lower(k) = Lower(name)])
    ELSE None

\* BTreeMap::get on the account's named keys: exact match of the name
NamedKeysGet(acct, name) ==
    IF name \in DOMAIN acct.named_keys
    THEN Some(acct.named_keys[name])
    ELSE None

(***************************************************************************)
(* to_contract_hash_key(&self, account).  KeyLookups gives the names the   *)
(* call looks up in the account's named keys.                              *)
(***************************************************************************)
\* mutant: a name that is not found gives Ok(None)
to_contract_hash_key_NotFoundIsNone(self, acct) ==
    CASE self.variant \in {"StoredContractByHash", "StoredVersionedContractByHash"} ->
           Ok(Some(KeyFromHash(self.hash)))
      [] self.variant \in {"StoredContractByName", "StoredVersionedContractByName"} ->
           LET found == NamedKeysGet(acct, self.name)
           IN  IF IsSome(found) THEN Ok(Some(Unwrap(found))) ELSE Ok(None)
      [] self.variant \in {"ModuleBytes", "Transfer"} ->
           Ok(None)

\* mutant: the error carries the entry point instead of the name
to_contract_hash_key_ErrorNamesEntryPoint(self, acct) ==
    CASE self.variant \in {"StoredContractByHash", "StoredVersionedContractByHash"} ->
           Ok(Some(KeyFromHash(self.hash)))
      [] self.variant \in {"StoredContractByName", "StoredVersionedContractByName"} ->
           LET found == NamedKeysGet(acct, self.name)
           IN  IF IsSome(found)
               THEN Ok(Some(Unwrap(found)))
               ELSE Err([tag |-> "Exec",
                         inner |-> [tag |-> "NamedKeyNotFound",
                                    name |-> self.entry_point]])
      [] self.variant \in {"ModuleBytes", "Transfer"} ->
           Ok(None)

\* mutant: the versioned by-hash variant is left to the arm that gives None
to_contract_hash_key_VersionedHashIsNone(self, acct) ==
    CASE self.variant = "StoredContractByHash" ->
           Ok(Some(KeyFromHash(self.hash)))
      [] self.variant \in {"StoredContractByName", "StoredVersionedContractByName"} ->
           LET found == NamedKeysGet(acct, self.name)
           IN  IF IsSome(found)
               THEN Ok(Some(Unwrap(found)))
               ELSE Err([tag |-> "Exec",
                         inner |-> [tag |-> "NamedKeyNotFound", name |-> self.name]])
      [] OTHER ->
           Ok(None)

to_contract_hash_key(self, acct) ==
    CASE self.variant \in {"StoredContractByHash", "StoredVersionedContractByHash"} ->
           Ok(Some(KeyFromHash(self.hash)))
      [] self.variant \in {"StoredContractByName", "StoredVersionedContractByName"} ->
           LET found == NamedKeysGet(acct, self.name)
           IN  IF IsSome(found)
               THEN Ok(Some(Unwrap(found)))
               ELSE Err([tag |-> "Exec",
                         inner |-> [tag |-> "NamedKeyNotFound", name |-> self.name]])
      [] self.variant \in {"ModuleBytes", "Transfer"} ->
           Ok(None)

KeyLookups(self) ==
    IF self.variant \in {"StoredContractByName", "StoredVersionedContractByName"}
    THEN <<self.name>>
    ELSE <<>>

(***************************************************************************)
(* entry_point_name(&self).                                                *)
(***************************************************************************)
\* mutant: an empty entry point falls back to the default
entry_point_name_DefaultWhenEmpty(self) ==
    IF self.variant \in {"ModuleBytes", "Transfer"} \/ self.entry_point = <<>>
    THEN DEFAULT_ENTRY_POINT_NAME
    ELSE self.entry_point

entry_point_name(self) ==
    IF self.variant \in {"ModuleBytes", "Transfer"}
    THEN DEFAULT_ENTRY_POINT_NAME
    ELSE self.entry_point

(***************************************************************************)
(* bytesrepr: the binary codec of the types crate, for RuntimeArgs (a      *)
(* mapping from argument name to CLValue).  A u32 is 4 bytes little        *)
(* endian; a String and a Vec<u8> are a u32 length and the bytes; a        *)
(* CLValue is its bytes (Vec<u8>) and then its CLType tag; RuntimeArgs is  *)
(* a u32 count and then each name and value, in the order of the names.    *)
(* CLType is modelled for the simple types, tags 0 (Bool) to 12 (URef).    *)
(***************************************************************************)
U32ToBytes(n) ==
    <<n % 256, (n \div 256) % 256, (n \div 65536) % 256, (n \div 16777216) % 256>>

StringToBytes(s) == U32ToBytes(Len(s)) \o s

CLValueToBytes(v) == U32ToBytes(Len(v.bytes)) \o v.bytes \o <<v.cl_type>>

\* byte-wise comparison of two byte sequences, as for slices and strings
RECURSIVE cmp_bytes(_, _)
cmp_bytes(a, b) ==
    IF a = <<>> /\ b = <<>> THEN "Equal"
    ELSE IF a = <<>> THEN "Less"
    ELSE IF b = <<>> THEN "Greater"
    ELSE IF Head(a) < Head(b) THEN "Less"
    ELSE IF Head(a) > Head(b) THEN "Greater"
    ELSE cmp_bytes(Tail(a), Tail(b))

\* the names of a set in ascending order (the iteration order of a BTreeMap)
RECURSIVE SortedNames(_)
SortedNames(S) ==
    IF S = {} THEN <<>>
    ELSE LET m == CHOOSE x \in S : \A y \in S : cmp_bytes(x, y) # "Greater"
         IN  <<m>> \o SortedNames(S \ {m})

RECURSIVE NamedArgsToBytes(_, _)
NamedArgsToBytes(m, names) ==
    IF names = <<>> THEN <<>>
    ELSE StringToBytes(Head(names)) \o CLValueToBytes(m[Head(names)])
         \o NamedArgsToBytes(m, Tail(names))

RuntimeArgsToBytes(m) ==
    U32ToBytes(Cardinality(DOMAIN m)) \o NamedArgsToBytes(m, SortedNames(DOMAIN m))

\* a parse step: the value and the remainder, or the error
Parsed(v, rest) == [tag |-> "Ok", val |-> v, rest |-> rest]

\* (the buffers of the model hold lengths below 2^31)
U32FromBytes(b) ==
    IF Len(b) < 4 THEN Err("EarlyEndOfStream")
    ELSE Parsed(b[1] + 256 * b[2] + 65536 * b[3] + 16777216 * b[4],
                SubSeq(b, 5, Len(b)))

\* Vec<u8>: a length, then that many bytes
BytesFromBytes(b) ==
    LET n == U32FromBytes(b)
    IN  IF n.tag = "Err" THEN n
        ELSE IF Len(n.rest) < n.val THEN Err("EarlyEndOfStream")
        ELSE Parsed(SubSeq(n.rest, 1, n.val), SubSeq(n.rest, n.val + 1, Len(n.rest)))

\* String: as Vec<u8>, and the bytes must be UTF-8 (here: ASCII)
StringFromBytes(b) ==
    LET v == BytesFromBytes(b)
    IN  IF v.tag = "Err" THEN v
        ELSE IF \E i \in 1..Len(v.val) : v.val[i] > 127 THEN Err("Formatting")
        ELSE v

CLTypeFromBytes(b) ==
    IF Len(b) < 1 THEN Err("EarlyEndOfStream")
    ELSE IF b[1] > 12 THEN Err("Formatting")
    ELSE Parsed(b[1], SubSeq(b, 2, Len(b)))

CLValueFromBytes(b) ==
    LET v == BytesFromBytes(b)
    IN  IF v.tag = "Err" THEN v
        ELSE LET t == CLTypeFromBytes(v.rest)
             IN  IF t.tag = "Err" THEN t
                 ELSE Parsed([cl_type |-> t.val, bytes |-> v.val], t.rest)

\* m with name mapped to v (BTreeMap::insert)
Insert(m, name, v) ==
    [n \in DOMAIN m \cup {name} |-> IF n = name THEN v ELSE m[n]]

RECURSIVE NamedArgsFromBytes(_, _, _)
NamedArgsFromBytes(b, count, m) ==
    IF count = 0 THEN Parsed(m, b)
    ELSE LET k == StringFromBytes(b)
         IN  IF k.tag = "Err" THEN k
             ELSE LET v == CLValueFromBytes(k.rest)
                  IN  IF v.tag = "Err" THEN v
                      ELSE NamedArgsFromBytes(v.rest, count - 1,
                                              Insert(m, k.val, v.val))

EmptyArgs == [n \in {} |-> 0]

RuntimeArgsFromBytes(b) ==
    LET n == U32FromBytes(b)
    IN  IF n.tag = "Err" THEN n
        ELSE NamedArgsFromBytes(n.rest, n.val, EmptyArgs)

\* bytesrepr::deserialize: the whole buffer must be used
deserialize(b) ==
    LET r == RuntimeArgsFromBytes(b)
    IN  IF r.tag = "Err" THEN r
        ELSE IF r.rest # <<>> THEN Err("LeftOverBytes")
        ELSE Ok(r.val)

(***************************************************************************)
(* into_runtime_args(self): every variant decodes its args buffer and      *)
(* hands the codec's error on unchanged.                                   *)
(***************************************************************************)
\* mutant: ModuleBytes decodes its module bytes
into_runtime_args_ModuleBytes(self) ==
    LET runtime_args == deserialize(IF self.variant = "ModuleBytes"
                                    THEN self.module_bytes ELSE self.args)
    IN  IF runtime_args.tag = "Err"
        THEN Err(runtime_args.err)
        ELSE Ok(runtime_args.val)

\* mutant: a buffer that does not decode gives no arguments
into_runtime_args_DefaultOnError(self) ==
    LET runtime_args == deserialize(self.args)
    IN  IF runtime_args.tag = "Err"
        THEN Ok(EmptyArgs)
        ELSE Ok(runtime_args.val)

into_runtime_args(self) ==
    LET runtime_args == deserialize(self.args)
    IN  IF runtime_args.tag = "Err"
        THEN Err(runtime_args.err)
        ELSE Ok(runtime_args.val)

(***************************************************************************)
(* Display.  HexFmt (hex_fmt) writes lower-case hex; given a width, a      *)
(* shorter rendering is centred with spaces and a longer one keeps the     *)
(* first and last digits around "..".  A u32 is written in decimal.        *)
(***************************************************************************)
HexByte(b) == <<HexDigits[(b \div 16) + 1], HexDigits[(b % 16) + 1]>>

RECURSIVE HexFmt(_)
HexFmt(bytes) ==
    IF bytes = <<>> THEN <<>> ELSE HexByte(Head(bytes)) \o HexFmt(Tail(bytes))

Fill(n) == [i \in 1..n |-> 32]

HexFmtWidth(bytes, width) ==
    IF 2 * Len(bytes) <= width
    THEN LET missing == width - 2 * Len(bytes)
         IN  Fill(missing \div 2) \o HexFmt(bytes) \o Fill(missing - missing \div 2)
    ELSE IF width <= Len(ELLIPSIS) THEN SubSeq(ELLIPSIS, 1, width)
    ELSE LET digits == width - Len(ELLIPSIS)
             left   == digits - digits \div 2
             right  == digits \div 2
             n      == Len(bytes)
         IN  HexFmt(SubSeq(bytes, 1, left \div 2))
             \o (IF left % 2 = 1
                 THEN <<HexDigits[(bytes[left \div 2 + 1] \div 16) + 1]>>
                 ELSE <<>>)
             \o ELLIPSIS
             \o (IF right % 2 = 1
                 THEN <<HexDigits[(bytes[(n - right) \div 2 + 1] % 16) + 1]>>
                 ELSE <<>>)
             \o HexFmt(SubSeq(bytes, n - right \div 2 + 1, n))

RECURSIVE Decimal(_)
Decimal(n) ==
    IF n < 10 THEN <<48 + n>> ELSE Decimal(n \div 10) \o <<48 + (n % 10)>>

\* mutant: version 0 is rendered as the latest version
IsExplicit_ZeroIsLatest(version) == IsSome(version) /\ Unwrap(version) # 0

\* the pattern `version: Some(ver)` (against `version: None`)
IsExplicit(version) == IsSome(version)

fmt(self) ==
    CASE self.variant = "ModuleBytes" ->
           TxtModuleBytes \o HexFmtWidth(self.module_bytes, 10)
           \o TxtArgs \o HexFmtWidth(self.args, 10)
      [] self.variant = "StoredContractByHash" ->
           TxtByHash \o HexFmt(self.hash)
           \o TxtEntryPoint \o self.entry_point
           \o TxtArgs \o HexFmtWidth(self.args, 10)
      [] self.variant = "StoredContractByName" ->
           TxtByName \o self.name
           \o TxtEntryPoint \o self.entry_point
           \o TxtArgs \o HexFmtWidth(self.args, 10)
      [] self.variant = "StoredVersionedContractByName" /\ IsExplicit(self.version) ->
           TxtVersioned \o self.name
           \o TxtVersion \o Decimal(Unwrap(self.version))
           \o TxtEntryPoint \o self.entry_point
           \o TxtArgs \o HexFmtWidth(self.args, 10)
      [] self.variant = "StoredVersionedContractByName" /\ ~IsExplicit(self.version) ->
           TxtVersioned \o self.name
           \o TxtLatestVersionEntryPoint \o self.entry_point
           \o TxtArgs \o HexFmtWidth(self.args, 10)
      [] self.variant = "StoredVersionedContractByHash" /\ IsExplicit(self.version) ->
           TxtVersionedByHash \o HexFmt(self.hash)
           \o TxtVersion \o Decimal(Unwrap(self.version))
           \o TxtEntryPoint \o self.entry_point
           \o TxtArgs \o HexFmtWidth(self.args, 10)
      [] self.variant = "StoredVersionedContractByHash" /\ ~IsExplicit(self.version) ->
           TxtVersionedByHash \o HexFmt(self.hash)
           \o TxtLatestVersionEntryPoint \o self.entry_point
           \o TxtArgs \o HexFmtWidth(self.args, 10)
      [] self.variant = "Transfer" ->
           TxtTransfer \o HexFmtWidth(self.args, 10)

(***************************************************************************)
(* The derived order (PartialOrd, Ord): the discriminants first, then the  *)
(* fields of the variant in declaration order.  None is less than Some.    *)
(***************************************************************************)
cmp_int(a, b) == IF a < b THEN "Less" ELSE IF a > b THEN "Greater" ELSE "Equal"

\* mutant: an absent version counts as version 0
cmp_version_NoneIsZero(a, b) ==
    cmp_int(IF IsSome(a) THEN Unwrap(a) ELSE 0, IF IsSome(b) THEN Unwrap(b) ELSE 0)

cmp_version(a, b) ==
    IF ~IsSome(a) /\ ~IsSome(b) THEN "Equal"
    ELSE IF ~IsSome(a) THEN "Less"
    ELSE IF ~IsSome(b) THEN "Greater"
    ELSE cmp_int(Unwrap(a), Unwrap(b))

\* the first comparison that is not Equal
RECURSIVE FirstNonEqual(_)
FirstNonEqual(os) ==
    IF os = <<>> THEN "Equal"
    ELSE IF Head(os) # "Equal" THEN Head(os)
    ELSE FirstNonEqual(Tail(os))

cmp(a, b) ==
    IF a.variant # b.variant
    THEN cmp_int(Discriminant(a.variant), Discriminant(b.variant))
    ELSE CASE a.variant = "ModuleBytes" ->
                FirstNonEqual(<<cmp_bytes(a.module_bytes, b.module_bytes),
                                cmp_bytes(a.args, b.args)>>)
           [] a.variant = "StoredContractByHash" ->
                FirstNonEqual(<<cmp_bytes(a.hash, b.hash),
                                cmp_bytes(a.entry_point, b.entry_point),
                                cmp_bytes(a.args, b.args)>>)
           [] a.variant = "StoredContractByName" ->
                FirstNonEqual(<<cmp_bytes(a.name, b.name),
                                cmp_bytes(a.entry_point, b.entry_point),
                                cmp_bytes(a.args, b.args)>>)
           [] a.variant = "StoredVersionedContractByName" ->
                FirstNonEqual(<<cmp_bytes(a.name, b.name),
                                cmp_version(a.version, b.version),
                                cmp_bytes(a.entry_point, b.entry_point),
                                cmp_bytes(a.args, b.args)>>)
           [] a.variant = "StoredVersionedContractByHash" ->
                FirstNonEqual(<<cmp_bytes(a.hash, b.hash),
                                cmp_version(a.version, b.version),
                                cmp_bytes(a.entry_point, b.entry_point),
                                cmp_bytes(a.args, b.args)>>)
           [] a.variant = "Transfer" ->
                cmp_bytes(a.args, b.args)

(***************************************************************************)
(* The inputs.                                                             *)
(***************************************************************************)
\* two 32-byte addresses (ContractHash, ContractPackageHash)
HashZero == [i \in 1..32 |-> 0]
HashMixed == [i \in 1..32 |-> IF i = 1 THEN 171 ELSE i]
Hashes == {HashZero, HashMixed}

ModuleBytesSet == {<<>>, <<1>>, <<222, 173, 190, 239, 0, 1>>}
Names == {StrPos, StrPosUpper, StrPo}
EntryPoints == {StrEmpty, StrBond, StrLatestVersion}
OptVersions == {None} \cup {Some(v) : v \in (0..MaxVersion) \cup {2147483647}}

\* the named-argument mappings: names "a", "b", ... to a U8 or a Bool value
ArgNames == {<<96 + i>> : i \in 1..MaxArgs}
ArgValues == {[cl_type |-> 3, bytes |-> <<5>>], [cl_type |-> 0, bytes |-> <<1>>]}
ArgMaps == UNION {[D -> ArgValues] : D \in SUBSET ArgNames}

\* a buffer without its last byte
Truncate(b) == SubSeq(b, 1, Len(b) - 1)

ValidArgBufs == {RuntimeArgsToBytes(m) : m \in ArgMaps}
TruncatedArgBufs == {Truncate(b) : b \in ValidArgBufs}
\* left-over byte, unknown CLType tag, name that is not UTF-8, count too large
MalformedArgBufs ==
    {<<0, 0, 0, 0, 0>>,
     <<1, 0, 0, 0, 1, 0, 0, 0, 97, 1, 0, 0, 0, 5, 255>>,
     <<1, 0, 0, 0, 1, 0, 0, 0, 255, 1, 0, 0, 0, 5, 3>>,
     <<2, 0, 0, 0, 1, 0, 0, 0, 97, 1, 0, 0, 0, 5, 3>>}
ArgBufs == ValidArgBufs \cup TruncatedArgBufs \cup MalformedArgBufs

\* the buffers of the main specification: {} encoded, {"a": U8 5} encoded,
\* and the latter without its last byte
OneArg == [n \in {<<97>>} |-> [cl_type |-> 3, bytes |-> <<5>>]]
CoreArgBufs == {RuntimeArgsToBytes(EmptyArgs), RuntimeArgsToBytes(OneArg),
                Truncate(RuntimeArgsToBytes(OneArg))}

ItemsOf(mbs, hashes, names, versions, eps, bufs) ==
    {ModuleBytes(mb, a) : mb \in mbs, a \in bufs}
    \cup {StoredContractByHash(h, e, a) : h \in hashes, e \in eps, a \in bufs}
    \cup {StoredContractByName(n, e, a) : n \in names, e \in eps, a \in bufs}
    \cup {StoredVersionedContractByName(n, v, e, a) :
            n \in names, v \in versions, e \in eps, a \in bufs}
    \cup {StoredVersionedContractByHash(h, v, e, a) :
            h \in hashes, v \in versions, e \in eps, a \in bufs}
    \cup {Transfer(a) : a \in bufs}

Items == ItemsOf(ModuleBytesSet, Hashes, Names, OptVersions, EntryPoints, CoreArgBufs)

\* every argument buffer, under each variant
ArgItems == ItemsOf({<<1>>}, {HashZero}, {StrPos}, {None, Some(0)}, {StrBond}, ArgBufs)

\* the items that are compared
OrdBufs == {<<>>, <<1, 0>>, <<2>>}
\* "", "ab", "b"
OrdStrings == {StrEmpty, <<97, 98>>, <<98>>}
OrdEntryPoints == {StrEmpty, StrBond}
OrdVersions == {None, Some(0), Some(1)}
OrdItems == ItemsOf(OrdBufs, Hashes, OrdStrings, OrdVersions, OrdEntryPoints, OrdBufs)

\* the accounts: named keys for some of the names "pos" and "Pos"
AccountNames == {StrPos, StrPosUpper}
NamedKeyValues == {KeyHash(HashZero), KeyURef(HashMixed)}
Accounts == {[named_keys |-> nk] :
               nk \in UNION {[D -> NamedKeyValues] : D \in SUBSET AccountNames}}
EmptyAccount == [named_keys |-> [n \in {} |-> KeyHash(HashZero)]]

(***************************************************************************)
(* The state: an item (and, for a comparison, another), an account, and    *)
(* what the operation that was called returned.                            *)
(***************************************************************************)
Start ==
    /\ op = "start"
    /\ lookups = <<>>
    /\ key_result = NotRun
    /\ args_result = NotRun
    /\ entry_point = <<>>
    /\ rendered = <<>>
    /\ ordering = "NotRun"

Init ==
    /\ item \in Items
    /\ other = item
    /\ account \in Accounts
    /\ Start

InitArgs ==
    /\ item \in ArgItems
    /\ other = item
    /\ account = EmptyAccount
    /\ Start

InitOrd ==
    /\ item \in OrdItems
    /\ other \in OrdItems
    /\ account = EmptyAccount
    /\ Start

ToContractHashKey ==
    /\ op = "start"
    /\ op' = "to_contract_hash_key"
    /\ key_result' = to_contract_hash_key(item, account)
    /\ lookups' = lookups \o KeyLookups(item)
    /\ UNCHANGED <<item, other, account, args_result, entry_point, rendered, ordering>>

IntoRuntimeArgs ==
    /\ op = "start"
    /\ op' = "into_runtime_args"
    /\ args_result' = into_runtime_args(item)
    /\ UNCHANGED <<item, other, account, lookups, key_result, entry_point, rendered,
                   ordering>>

EntryPointName ==
    /\ op = "start"
    /\ op' = "entry_point_name"
    /\ entry_point' = entry_point_name(item)
    /\ UNCHANGED <<item, other, account, lookups, key_result, args_result, rendered,
                   ordering>>

Fmt ==
    /\ op = "start"
    /\ op' = "fmt"
    /\ rendered' = fmt(item)
    /\ UNCHANGED <<item, other, account, lookups, key_result, args_result,
                   entry_point, ordering>>

Cmp ==
    /\ op = "start"
    /\ op' = "cmp"
    /\ ordering' = cmp(item, other)
    /\ UNCHANGED <<item, other, account, lookups, key_result, args_result,
                   entry_point, rendered>>

Next == ToContractHashKey \/ IntoRuntimeArgs \/ EntryPointName \/ Fmt

NextArgs == IntoRuntimeArgs

NextOrd == Cmp

Spec == Init /\ [][Next]_vars

SpecArgs == InitArgs /\ [][NextArgs]_vars

SpecOrd == InitOrd /\ [][NextOrd]_vars

(***************************************************************************)
(* The properties.                                                         *)
(***************************************************************************)
HashVariants == {"StoredContractByHash", "StoredVersionedContractByHash"}
NameVariants == {"StoredContractByName", "StoredVersionedContractByName"}
VersionedVariants == {"StoredVersionedContractByName", "StoredVersionedContractByHash"}

\* pat occurs in text
Contains(text, pat) ==
    \E i \in 0..(Len(text) - Len(pat)) : SubSeq(text, i + 1, i + Len(pat)) = pat

\* C1: to_contract_hash_key returns Ok(None) if and only if the item is a
\* ModuleBytes or a Transfer; for every other variant the result is
\* Ok(Some(key)) or an error.
C1_NoneIffModuleBytesOrTransfer ==
    op = "to_contract_hash_key" =>
        /\ (key_result = Ok(None)) <=> (item.variant \in {"ModuleBytes", "Transfer"})
        /\ item.variant \notin {"ModuleBytes", "Transfer"} =>
              \/ key_result.tag = "Err"
              \/ key_result.tag = "Ok" /\ IsSome(key_result.val)

C1_Witness ==
    /\ op = "to_contract_hash_key"
    /\ item.variant = "Transfer"
    /\ key_result = Ok(None)

\* C2: a name-addressed item whose name is not among the account's named
\* keys gives exactly Error::Exec(NamedKeyNotFound(name)) with the item's
\* name unchanged.
C2_NamedKeyNotFound ==
    (/\ op = "to_contract_hash_key"
     /\ item.variant \in NameVariants
     /\ item.name \notin DOMAIN account.named_keys)
    => key_result = [tag |-> "Err",
                     err |-> [tag |-> "Exec",
                              inner |-> [tag |-> "NamedKeyNotFound",
                                         name |-> item.name]]]

\* "po" is looked up in an account that has "pos" and "Pos"
C2_Witness ==
    /\ op = "to_contract_hash_key"
    /\ item.variant = "StoredVersionedContractByName"
    /\ item.name = StrPo
    /\ DOMAIN account.named_keys = {StrPos, StrPosUpper}
    /\ key_result.tag = "Err"
    /\ key_result.err.inner.name = StrPo

\* C3: a hash-addressed item gives Ok(Some(Key::Hash(hash))) for every
\* account: never an error, no lookup in the account, and the same result
\* whatever the account's named keys are.
C3_ByHashIgnoresAccount ==
    (op = "to_contract_hash_key" /\ item.variant \in HashVariants) =>
        /\ key_result = [tag |-> "Ok", val |-> <<[tag |-> "Hash", addr |-> item.hash]>>]
        /\ lookups = <<>>
        /\ \A acct \in Accounts : to_contract_hash_key(item, acct) = key_result

C3_Witness ==
    /\ op = "to_contract_hash_key"
    /\ item.variant = "StoredVersionedContractByHash"
    /\ item.hash = HashMixed
    /\ DOMAIN account.named_keys # {}
    /\ key_result.tag = "Ok"

\* C4: a name-addressed item whose name is among the account's named keys
\* gives Ok(Some(k)) with k the key stored under exactly that name,
\* whatever the version, entry_point and args are.
C4_NamedKeyFound ==
    (/\ op = "to_contract_hash_key"
     /\ item.variant \in NameVariants
     /\ item.name \in DOMAIN account.named_keys)
    => /\ key_result = [tag |-> "Ok", val |-> <<account.named_keys[item.name]>>]
       /\ lookups = <<item.name>>

\* "pos" and "Pos" are both present, with different keys
C4_Witness ==
    /\ op = "to_contract_hash_key"
    /\ item.variant = "StoredContractByName"
    /\ item.name = StrPos
    /\ DOMAIN account.named_keys = {StrPos, StrPosUpper}
    /\ account.named_keys[StrPos] # account.named_keys[StrPosUpper]
    /\ key_result = Ok(Some(account.named_keys[StrPos]))

\* C5: entry_point_name returns "call" for ModuleBytes and Transfer and the
\* carried entry_point string, unchanged, for the four stored variants,
\* the empty string included.
C5_EntryPointName ==
    op = "entry_point_name" =>
        /\ item.variant \in {"ModuleBytes", "Transfer"} =>
              entry_point = DEFAULT_ENTRY_POINT_NAME
        /\ item.variant \in HashVariants \cup NameVariants =>
              entry_point = item.entry_point

C5_Witness ==
    /\ op = "entry_point_name"
    /\ item.variant = "StoredContractByHash"
    /\ item.entry_point = StrEmpty
    /\ entry_point = StrEmpty

\* C6: an item of any variant whose args buffer is the encoding of a
\* named-argument mapping M gives into_runtime_args() = Ok(M), and any item
\* carrying the same buffer, whatever its variant, gives the same result.
C6_RoundTrip ==
    op = "into_runtime_args" =>
        /\ \A m \in ArgMaps :
              item.args = RuntimeArgsToBytes(m) => args_result = [tag |-> "Ok", val |-> m]
        /\ \A j \in ArgItems :
              j.args = item.args => into_runtime_args(j) = args_result

\* a ModuleBytes item with two encoded arguments
C6_Witness ==
    /\ op = "into_runtime_args"
    /\ item.variant = "ModuleBytes"
    /\ args_result.tag = "Ok"
    /\ DOMAIN args_result.val = {<<97>>, <<98>>}
    /\ item.args = RuntimeArgsToBytes(args_result.val)
    /\ item.module_bytes # item.args

\* C7: a buffer that is a valid encoding without its last byte, and any
\* buffer the codec rejects, gives Err with the codec's error, never Ok.
C7_DecodeError ==
    op = "into_runtime_args" =>
        /\ item.args \in TruncatedArgBufs => args_result.tag = "Err"
        /\ deserialize(item.args).tag = "Err" =>
              args_result = [tag |-> "Err", err |-> deserialize(item.args).err]

\* two encoded arguments, the last byte missing
C7_Witness ==
    /\ op = "into_runtime_args"
    /\ item.variant = "StoredVersionedContractByHash"
    /\ \E m \in ArgMaps : Cardinality(DOMAIN m) = 2
                          /\ item.args = Truncate(RuntimeArgsToBytes(m))
    /\ args_result = Err("EarlyEndOfStream")

\* C8: the comparison is a strict total order consistent with equality:
\* exactly one of a < b, a = b, b < a; a < b and b < c give a < c; and the
\* comparison is Equal exactly when the two items are the same variant with
\* equal fields (a version of None is not Some(0)).
C8_StrictTotalOrder ==
    op = "cmp" =>
        /\ ordering \in {"Less", "Equal", "Greater"}
        /\ (ordering = "Equal") <=> (item = other)
        /\ (ordering = "Less") <=> (cmp(other, item) = "Greater")
        /\ (ordering = "Greater") <=> (cmp(other, item) = "Less")
        /\ \A c \in OrdItems :
              (ordering = "Less" /\ cmp(other, c) = "Less") => cmp(item, c) = "Less"

\* the same item but for the version, None against Some(0)
C8_Witness ==
    /\ op = "cmp"
    /\ item.variant = "StoredVersionedContractByName"
    /\ item.version = None
    /\ other = [item EXCEPT !.version = Some(0)]
    /\ ordering = "Less"

\* C9: two items of different variants are ordered by the declaration
\* order of the variants, whatever their fields; two of the same variant
\* by the first field, in declaration order, in which they differ, byte
\* buffers and strings byte by byte.
VariantRank ==
    [ModuleBytes |-> 0, StoredContractByHash |-> 1, StoredContractByName |-> 2,
     StoredVersionedContractByName |-> 3, StoredVersionedContractByHash |-> 4,
     Transfer |-> 5]

\* a is a proper prefix of b, or is less at the first byte where they differ
BytesLess(a, b) ==
    \E k \in 0..Len(a) :
        /\ k <= Len(b)
        /\ \A i \in 1..k : a[i] = b[i]
        /\ \/ k = Len(a) /\ k < Len(b)
           \/ k < Len(a) /\ k < Len(b) /\ a[k + 1] < b[k + 1]

VersionLess(a, b) ==
    \/ a = <<>> /\ b # <<>>
    \/ a # <<>> /\ b # <<>> /\ a[1] < b[1]

FieldNames(variant) ==
    CASE variant = "ModuleBytes" -> <<"module_bytes", "args">>
      [] variant = "StoredContractByHash" -> <<"hash", "entry_point", "args">>
      [] variant = "StoredContractByName" -> <<"name", "entry_point", "args">>
      [] variant = "StoredVersionedContractByName" ->
           <<"name", "version", "entry_point", "args">>
      [] variant = "StoredVersionedContractByHash" ->
           <<"hash", "version", "entry_point", "args">>
      [] variant = "Transfer" -> <<"args">>

FieldLess(f, a, b) ==
    IF f = "version" THEN VersionLess(a[f], b[f]) ELSE BytesLess(a[f], b[f])

\* a and b are the same variant; a is less in the first field that differs
LexLess(a, b) ==
    LET fs == FieldNames(a.variant)
    IN  \E i \in 1..Len(fs) :
            /\ \A j \in 1..(i - 1) : a[fs[j]] = b[fs[j]]
            /\ FieldLess(fs[i], a, b)

C9_RankThenFields ==
    op = "cmp" =>
        IF item.variant # other.variant
        THEN ordering = IF VariantRank[item.variant] < VariantRank[other.variant]
                        THEN "Less" ELSE "Greater"
        ELSE /\ (ordering = "Less") <=> LexLess(item, other)
             /\ (ordering = "Greater") <=> LexLess(other, item)

\* the version decides although the entry points are ordered the other way
C9_Witness ==
    /\ op = "cmp"
    /\ item.variant = "StoredVersionedContractByHash"
    /\ other.variant = "StoredVersionedContractByHash"
    /\ item.hash = other.hash
    /\ item.version = Some(0) /\ other.version = Some(1)
    /\ item.entry_point = StrBond /\ other.entry_point = StrEmpty
    /\ ordering = "Less"

\* C10 as stated: the rendering of a versioned item contains
\* "latest version" if and only if its version is None, and contains
\* "version <v>" when its version is Some(v).
C10_LatestIffNone ==
    (op = "fmt" /\ item.variant \in VersionedVariants) =>
        /\ Contains(rendered, StrLatestVersion) <=> (item.version = None)
        /\ item.version # None =>
              Contains(rendered, StrVersionSp \o Decimal(item.version[1]))

\* the text that names the item: its name, or its hash in hex
Addressed(self) ==
    IF self.variant \in NameVariants THEN self.name ELSE HexFmt(self.hash)

\* the literal text a variant's rendering starts with
Prefix(variant) ==
    CASE variant = "ModuleBytes" -> TxtModuleBytes
      [] variant = "StoredContractByHash" -> TxtByHash
      [] variant = "StoredContractByName" -> TxtByName
      [] variant = "StoredVersionedContractByName" -> TxtVersioned
      [] variant = "StoredVersionedContractByHash" -> TxtVersionedByHash
      [] variant = "Transfer" -> TxtTransfer

\* text begins with pre
StartsWith(text, pre) == Len(text) >= Len(pre) /\ SubSeq(text, 1, Len(pre)) = pre

\* C10, amended: the rendering of a versioned item contains "latest version"
\* when its version is None; when its version is Some(v) it contains
\* "version <v>", and contains "latest version" only if the item's name or
\* entry point does.  Every variant renders, starting with the literal text
\* of its shape and ending with ", args " (Transfer: "args ") and the ten
\* characters of the args summary.
C10_VersionSegment ==
    op = "fmt" =>
        /\ StartsWith(rendered, Prefix(item.variant))
        /\ Len(rendered) >= 15
        /\ SubSeq(rendered, Len(rendered) - 14, Len(rendered) - 10)
             = <<97, 114, 103, 115, 32>>
        /\ item.variant \in VersionedVariants =>
              /\ item.version = None => Contains(rendered, StrLatestVersion)
              /\ item.version # None =>
                    /\ Contains(rendered, StrVersionSp \o Decimal(item.version[1]))
                    /\ StartsWith(rendered,
                                  Prefix(item.variant) \o Addressed(item)
                                  \o <<44, 32>> \o StrVersionSp
                                  \o Decimal(item.version[1]) \o TxtEntryPoint)
                    /\ Contains(rendered, StrLatestVersion) =>
                          \/ Contains(Addressed(item), StrLatestVersion)
                          \/ Contains(item.entry_point, StrLatestVersion)

\* version 0 is rendered as "version 0"
C10_Witness ==
    /\ op = "fmt"
    /\ item.variant = "StoredVersionedContractByName"
    /\ item.version = Some(0)
    /\ item.entry_point = StrLatestVersion
    /\ Contains(rendered, StrVersionSp \o <<48>>)
    /\ Contains(rendered, StrLatestVersion)

=============================================================================
